---- MODULE Spec2Model ----
(***************************************************************************)
(* Model of the modpack updater: sync_modpack_mmc.py and update_mod.py.    *)
(* One run of main() is a sequence of steps of the control thread; the     *)
(* download stage fans out to the tasks of a ThreadPoolExecutor.  The      *)
(* remote service, the HTTP transport and the filesystem are the           *)
(* environment: their answers and their failures are nondeterministic.     *)
(***************************************************************************)
EXTENDS Integers, Sequences, FiniteSets, TLC

\* ------------------------------------------------------------------ bounds
\* Largest file size (in bytes) of a manifest entry or of a file on disk.
MaxSize == 2
\* Largest number of entries in a manifest's file list.
MaxFiles == 2
\* Largest number of entries under overrides/ in an archive.
MaxOverrides == 2
\* Number of runs of main() in one behaviour.
MaxRuns == 2

\* ThreadPoolExecutor(max_workers=5)
max_workers == 5

\* --------------------------------------------------------------- the data
\* The two scripts of the repository; main() differs in the reconciliation.
Scripts == {"sync_modpack_mmc", "update_mod"}

\* A file name is <<stem, extension>>, so that a glob on the extension is
\* computed and not assumed.
JarNames == {<<"a", ".jar">>, <<"b", ".jar">>}
Names == JarNames \cup {<<"r", ".zip">>}
\* Directories of the profile a manifest path may name.
Dirs == {"mods", "resourcepacks"}
Paths == [dir : Dirs, name : Names]
ModsPath(n) == [dir |-> "mods", name |-> n]

\* A size on disk: Absent for no file.
Absent == -1
Sizes == 1..MaxSize

\* The name of an archive is a sequence of parts, so that "x in file.name"
\* is a real substring test.
V1 == <<"v1", ".mrpack">>
\* A cached archive of this version under a longer name, and a backup copy
\* of one, which "*.mrpack" does not match.
OldV1 == <<"old-", "v1", ".mrpack">>
BakV1 == <<"v1", ".mrpack", ".bak">>
InitialCaches == {{}, {OldV1}, {BakV1}}

\* Entries of an archive under overrides/, with the prefix removed:
\* a file directly in the profile, a file in config/, and the entry of the
\* directory config/ itself (its content is empty).
OverridePaths == {"options.txt", "config/x.cfg"}
ConfigDirEntry == "config/"
OverrideEntries ==
  {[path |-> "options.txt", content |-> 1],
   [path |-> "config/x.cfg", content |-> 2],
   [path |-> ConfigDirEntry, content |-> 0]}

\* glob("*.jar"), glob("*.mrpack")
IsJar(n) == n[2] = ".jar"
IsMrpack(f) == f[Len(f)] = ".mrpack"
\* Python's "sub in s" on names
Contains(sub, s) ==
  \E i \in 1..Len(s) :
    /\ i + Len(sub) - 1 <= Len(s)
    /\ SubSeq(s, i, i + Len(sub) - 1) = sub

\* Path(f["path"]).name
Basename(f) == f.path.name

Range(s) == {s[i] : i \in 1..Len(s)}

\* Sequences of length at most n over S
SeqsUpTo(S, n) == UNION {[1..k -> S] : k \in 0..n}

\* File lists of a manifest: the paths are unique (the format's invariant).
FileEntries == [path : Paths, fileSize : Sizes]
Manifests ==
  {m \in SeqsUpTo(FileEntries, MaxFiles) :
     \A i, j \in 1..Len(m) : m[i].path = m[j].path => i = j}

OverrideLists ==
  {o \in SeqsUpTo(OverrideEntries, MaxOverrides) :
     \A i, j \in 1..Len(o) : o[i].path = o[j].path => i = j}

\* The archives the remote service may serve for the latest version.
\* index: the state of modrinth.index.json in the archive.
IndexStates == {"ok", "missing", "invalid"}
\* The entries the archives of the pipeline are made of: a mod and a
\* resource pack.
PipelineEntries ==
  {[path |-> ModsPath(<<"a", ".jar">>), fileSize |-> 1],
   [path |-> [dir |-> "resourcepacks", name |-> <<"r", ".zip">>],
    fileSize |-> 1]}
Archives ==
  {a \in [index : IndexStates, files : Manifests, overrides : OverrideLists] :
     /\ Range(a.files) \subseteq PipelineEntries
     /\ a.index # "ok" => a.files = <<>> /\ a.overrides = <<>>}

\* ------------------------------------------------------------- the state
VARIABLES
  script,            \* which of the two scripts runs
  remote,            \* the latest version's archive, as the service serves it
  pc,                \* the position of the control thread in main()
  runs,              \* number of runs of main() started
  modpacks_exists,   \* MODPACKS_FOLDER.exists()
  cache,             \* names of the files in MODPACKS_FOLDER
  temp,              \* whether mrpack_path exists in the temporary directory
  data,              \* the result of read_mrpack
  fs,                \* size of each file of the profile a manifest may name
  config,            \* what <profile>/config is: "absent", "dir" or "file"
  ov,                \* content of each override file of the profile (0: none)
  task,              \* state of each future of the download stage
  futures,           \* files_to_download, in submission order
  reported,          \* futures whose result the control thread has printed
  ovi,               \* index of the next override the loop applies
  start,             \* the filesystem as it was when the run started
  deleted,           \* mods names unlinked in this run
  raised,            \* the statement whose exception left main(), if any
  failed_before      \* paths whose download failed in the previous run

vars ==
  <<script, remote, pc, runs, modpacks_exists, cache, temp, data, fs, config,
    ov, task, futures, reported, ovi, start, deleted, raised, failed_before>>

last_version_filename == V1

NotRaised == [at |-> "nowhere", on |-> <<>>]

NoData == [index |-> "missing", files |-> <<>>, overrides |-> <<>>]

Snapshot == [cache |-> cache, fs |-> fs, ov |-> ov, config |-> config,
             modpacks_exists |-> modpacks_exists]

\* The inspector comparing names for equality instead of containment.
has_last_modpack_version_exact(last_version) ==
  /\ modpacks_exists
  /\ \E file \in cache : IsMrpack(file) /\ file = last_version

\* ------------------------------------------------- the cache inspector
has_last_modpack_version(last_version) ==
  /\ modpacks_exists
  /\ \E file \in cache : IsMrpack(file) /\ Contains(last_version, file)

\* ------------------------------------------------------ the reconciler
\* expected = {Path(f["path"]).name: f["fileSize"] for f in files}: a later
\* entry with the same basename replaces an earlier one.
ExpectedNames(files) == {Basename(files[i]) : i \in 1..Len(files)}
Expected(files) ==
  [n \in ExpectedNames(files) |->
     LET last == CHOOSE i \in 1..Len(files) :
                   /\ Basename(files[i]) = n
                   /\ \A j \in 1..Len(files) : Basename(files[j]) = n => j <= i
     IN files[last].fileSize]

\* existing = {f.name: f.stat().st_size for f in folder_mods.glob("*.jar")}
ExistingNames(disk) ==
  {n \in Names : IsJar(n) /\ disk[ModsPath(n)] # Absent}

\* The reconciler forgetting the surplus mods.
to_delete_none(files, disk) == {}

to_delete(files, disk) ==
  {n \in ExistingNames(disk) : n \notin ExpectedNames(files)}

\* The reconciler comparing names only, not sizes.
to_download_missing_only(files, disk) ==
  {n \in ExpectedNames(files) : n \notin ExistingNames(disk)}

to_download(files, disk) ==
  {n \in ExpectedNames(files) :
     n \notin ExistingNames(disk) \/ disk[ModsPath(n)] # Expected(files)[n]}

\* [f for f in files_from_mrpack if Path(f["path"]).name in to_download]
sync_result(files, disk) ==
  LET names == to_download(files, disk)
      F[i \in 0..Len(files)] ==
        IF i = 0 THEN <<>>
        ELSE IF Basename(files[i]) \in names
             THEN Append(F[i - 1], files[i])
             ELSE F[i - 1]
  IN F[Len(files)]

\* The disk with the mods files named in S unlinked.
Unlink(disk, S) ==
  [p \in Paths |-> IF p.dir = "mods" /\ p.name \in S THEN Absent ELSE disk[p]]

\* folder_mods.glob("*") of update_mod.py
AllModsNames(disk) == {n \in Names : disk[ModsPath(n)] # Absent}

\* --------------------------------------------------------- the start
InitialDisks ==
  {d \in [Paths -> {Absent} \cup Sizes] :
     /\ \A p \in Paths : p.dir # "mods" => d[p] = Absent
     /\ \A p \in Paths : p.name # <<"a", ".jar">> => d[p] \in {Absent, 1}}

Init ==
  /\ script \in Scripts
  /\ remote \in Archives
  /\ pc = "start"
  /\ runs = 1
  /\ cache \in InitialCaches
  /\ modpacks_exists = (cache # {})
  /\ temp = FALSE
  /\ data = NoData
  /\ fs \in InitialDisks
  /\ config = "absent"
  /\ ov = [p \in OverridePaths |-> 0]
  /\ task = <<>>
  /\ futures = <<>>
  /\ reported = {}
  /\ ovi = 1
  /\ start = Snapshot
  /\ deleted = {}
  /\ raised = NotRaised
  /\ failed_before = {}

\* An exception leaves main(): nothing after the raising statement runs.
\* at names the statement, on the entry (a name or an index) it was at.
Abort(at, on) ==
  /\ pc' = "aborted"
  /\ raised' = [at |-> at, on |-> on]
  /\ UNCHANGED <<cache, modpacks_exists>>

\* ------------------------------------------- main(): fetch and cache check
\* fetch_modpack_versions returns None (status not 200) or an empty list.
FetchNothing ==
  /\ pc = "start"
  /\ pc' = "no_versions"
  /\ UNCHANGED <<script, remote, runs, modpacks_exists, cache, temp, data, fs,
                 config, ov, task, futures, reported, ovi, start, deleted,
                 raised,
                 failed_before>>

AlreadyUpdated ==
  /\ pc = "start"
  /\ has_last_modpack_version(last_version_filename)
  /\ pc' = "uptodate"
  /\ UNCHANGED <<script, remote, runs, modpacks_exists, cache, temp, data, fs,
                 config, ov, task, futures, reported, ovi, start, deleted,
                 raised,
                 failed_before>>

NewVersion ==
  /\ pc = "start"
  /\ ~has_last_modpack_version(last_version_filename)
  /\ pc' = "download_modpack"
  /\ UNCHANGED <<script, remote, runs, modpacks_exists, cache, temp, data, fs,
                 config, ov, task, futures, reported, ovi, start, deleted,
                 raised,
                 failed_before>>

\* download_modpack: on a status other than 200 nothing is written, and
\* main() goes on to read_mrpack all the same.
download_modpack ==
  /\ pc = "download_modpack"
  /\ temp' \in BOOLEAN
  /\ pc' = "read_mrpack"
  /\ UNCHANGED <<script, remote, runs, modpacks_exists, cache, data, fs,
                 config, ov, task, futures, reported, ovi, start, deleted,
                 raised,
                 failed_before>>

\* read_mrpack returns: the archive opens and its index, when present, parses.
read_mrpack ==
  /\ pc = "read_mrpack"
  /\ temp
  /\ remote.index # "invalid"
  /\ data' = remote
  /\ pc' = "reconcile"
  /\ UNCHANGED <<script, remote, runs, modpacks_exists, cache, temp, fs,
                 config, ov, task, futures, reported, ovi, start, deleted,
                 raised,
                 failed_before>>

\* read_mrpack raises: no file at mrpack_path, or json.load fails.
read_mrpack_raises ==
  /\ pc = "read_mrpack"
  /\ ~temp \/ remote.index = "invalid"
  /\ Abort("read_mrpack", <<>>)
  /\ UNCHANGED <<script, remote, runs, temp, data, fs, config, ov, task,
                 futures, reported, ovi, start, deleted, failed_before>>

\* ------------------------------------------------- main(): reconciliation
\* executor.submit(download_mod, file, ...) for file in files
Submit(files) ==
  /\ futures' = files
  /\ task' = [i \in 1..Len(files) |-> "pending"]
  /\ reported' = {}
  /\ pc' = "pool"

\* sync_modpack_mmc.py: data["modrinth.index.json"]["files"] on the empty
\* list read_mrpack leaves when the archive has no index.
files_from_pack_raises ==
  /\ script = "sync_modpack_mmc"
  /\ pc = "reconcile"
  /\ data.index = "missing"
  /\ Abort("files", <<>>)
  /\ UNCHANGED <<script, remote, runs, temp, data, fs, config, ov, task,
                 futures, reported, ovi, start, deleted, failed_before>>

\* sync_mods_folder returns: every unlink succeeded.
sync_mods_folder ==
  /\ script = "sync_modpack_mmc"
  /\ pc = "reconcile"
  /\ data.index = "ok"
  /\ fs' = Unlink(fs, to_delete(data.files, fs))
  /\ deleted' = to_delete(data.files, fs)
  /\ Submit(sync_result(data.files, fs))
  /\ UNCHANGED <<script, remote, runs, modpacks_exists, cache, temp, data,
                 config, ov, ovi, start, raised,
                 failed_before>>

\* sync_mods_folder raises: path.unlink fails on the file f (PermissionError:
\* missing_ok covers only a file that is gone) after S, the names the loop
\* reached before it, were unlinked.  The order is that of glob.
sync_mods_folder_raises ==
  /\ script = "sync_modpack_mmc"
  /\ pc = "reconcile"
  /\ data.index = "ok"
  /\ \E f \in to_delete(data.files, fs) :
       \E S \in SUBSET (to_delete(data.files, fs) \ {f}) :
         /\ fs' = Unlink(fs, S)
         /\ deleted' = S
         /\ Abort("unlink", f)
  /\ UNCHANGED <<script, remote, runs, temp, data, config, ov, task, futures,
                 reported, ovi, start, failed_before>>

\* update_mod.py: remove_content_of_folder_mods, then the file list.
remove_content_of_folder_mods ==
  /\ script = "update_mod"
  /\ pc = "reconcile"
  /\ data.index = "ok"
  /\ fs' = Unlink(fs, AllModsNames(fs))
  /\ deleted' = AllModsNames(fs)
  /\ Submit(data.files)
  /\ UNCHANGED <<script, remote, runs, modpacks_exists, cache, temp, data,
                 config, ov, ovi, start, raised,
                 failed_before>>

\* update_mod.py: the mods are removed before data[...]["files"] raises.
remove_content_then_files_raises ==
  /\ script = "update_mod"
  /\ pc = "reconcile"
  /\ data.index = "missing"
  /\ fs' = Unlink(fs, AllModsNames(fs))
  /\ deleted' = AllModsNames(fs)
  /\ Abort("files", <<>>)
  /\ UNCHANGED <<script, remote, runs, temp, data, config, ov, task, futures,
                 reported, ovi, start, failed_before>>

\* update_mod.py: mod_file.unlink() raises on f after S was unlinked.
remove_content_raises ==
  /\ script = "update_mod"
  /\ pc = "reconcile"
  /\ \E f \in AllModsNames(fs) :
       \E S \in SUBSET (AllModsNames(fs) \ {f}) :
         /\ fs' = Unlink(fs, S)
         /\ deleted' = S
         /\ Abort("unlink", f)
  /\ UNCHANGED <<script, remote, runs, temp, data, config, ov, task, futures,
                 reported, ovi, start, failed_before>>

\* ------------------------------------------------------ the download stage
Tasks == DOMAIN task
Running == {i \in Tasks : task[i] = "running"}
Finished == {i \in Tasks : task[i] \notin {"pending", "running"}}
InPool == pc \in {"pool", "pool_raised"}

\* A worker of the pool takes a submitted task.
StartTask(i) ==
  /\ InPool
  /\ task[i] = "pending"
  /\ Cardinality(Running) < max_workers
  /\ task' = [task EXCEPT ![i] = "running"]
  /\ UNCHANGED <<script, remote, pc, runs, modpacks_exists, cache, temp, data,
                 fs, config, ov, futures, reported, ovi, start, deleted,
                 raised,
                 failed_before>>

\* download_mod: the file is there with the size of the manifest.
download_mod_current(i) ==
  /\ InPool
  /\ task[i] = "running"
  /\ fs[futures[i].path] = futures[i].fileSize
  /\ task' = [task EXCEPT ![i] = "current"]
  /\ UNCHANGED <<script, remote, pc, runs, modpacks_exists, cache, temp, data,
                 fs, config, ov, futures, reported, ovi, start, deleted,
                 raised,
                 failed_before>>

\* download_mod: the response is written; the service serves the file the
\* manifest describes.
download_mod_downloaded(i) ==
  /\ InPool
  /\ task[i] = "running"
  /\ fs[futures[i].path] # futures[i].fileSize
  /\ fs' = [fs EXCEPT ![futures[i].path] = futures[i].fileSize]
  /\ task' = [task EXCEPT ![i] = "downloaded"]
  /\ UNCHANGED <<script, remote, pc, runs, modpacks_exists, cache, temp, data,
                 config, ov, futures, reported, ovi, start, deleted,
                 raised,
                 failed_before>>

\* download_mod: requests.get, raise_for_status or open raises inside the
\* try; the file is as it was.  (An f.write that fails half way, leaving a
\* shorter file, is not among the failures drawn here.)
download_mod_error(i) ==
  /\ InPool
  /\ task[i] = "running"
  /\ fs[futures[i].path] # futures[i].fileSize
  /\ task' = [task EXCEPT ![i] = "error"]
  /\ UNCHANGED <<script, remote, pc, runs, modpacks_exists, cache, temp, data,
                 fs, config, ov, futures, reported, ovi, start, deleted,
                 raised,
                 failed_before>>

\* download_mod: path.parent.mkdir raises, outside the try: the exception
\* is the future's.  The mods directory exists; another one may not be
\* creatable.
download_mod_raises(i) ==
  /\ InPool
  /\ task[i] = "running"
  /\ fs[futures[i].path] # futures[i].fileSize
  /\ futures[i].path.dir # "mods"
  /\ task' = [task EXCEPT ![i] = "raised"]
  /\ UNCHANGED <<script, remote, pc, runs, modpacks_exists, cache, temp, data,
                 fs, config, ov, futures, reported, ovi, start, deleted,
                 raised,
                 failed_before>>

\* for future in as_completed(futures): print(future.result())
print_result(i) ==
  /\ pc = "pool"
  /\ i \in Finished \ reported
  /\ task[i] # "raised"
  /\ reported' = reported \cup {i}
  /\ UNCHANGED <<script, remote, pc, runs, modpacks_exists, cache, temp, data,
                 fs, config, ov, task, futures, ovi, start, deleted,
                 raised,
                 failed_before>>

\* future.result() re-raises the exception of the task in the control thread.
result_raises(i) ==
  /\ pc = "pool"
  /\ i \in Finished \ reported
  /\ task[i] = "raised"
  /\ pc' = "pool_raised"
  /\ UNCHANGED <<script, remote, runs, modpacks_exists, cache, temp, data,
                 fs, config, ov, task, futures, reported, ovi, start, deleted,
                 raised,
                 failed_before>>

\* The control thread printing the results at hand without waiting for the
\* running tasks (an executor shut down with wait=False).
Joined_no_wait == reported = Finished

\* The end of the with block: as_completed has yielded every future and
\* executor.shutdown(wait=True) has joined the workers.
Joined == reported = Tasks /\ Finished = Tasks

pool_exit ==
  /\ pc = "pool"
  /\ Joined
  /\ pc' = "overrides"
  /\ ovi' = 1
  /\ UNCHANGED <<script, remote, runs, modpacks_exists, cache, temp, data,
                 fs, config, ov, task, futures, reported, start, deleted,
                 raised,
                 failed_before>>

\* The with block left by the exception: shutdown(wait=True) still joins
\* the workers, then the exception leaves main().
pool_exit_raised ==
  /\ pc = "pool_raised"
  /\ Finished = Tasks
  /\ Abort("future", <<>>)
  /\ UNCHANGED <<script, remote, runs, temp, data, fs, config, ov, task,
                 futures, reported, ovi, start, deleted, failed_before>>

\* ------------------------------------------------------ the override stage
Overrides == data.overrides
IsConfigDir(e) == e.path = ConfigDirEntry
UnderConfig(e) == e.path = "config/x.cfg"

\* open(path, "wb") on a directory, or path.parent.mkdir on a file, raises.
WriteBlocked(e) ==
  \/ IsConfigDir(e) /\ config = "dir"
  \/ UnderConfig(e) /\ config = "file"

\* One pass of the loop: the parent directory is made and the content
\* written.  The entry of the directory config/ is opened as the file
\* <profile>/config.
apply_override ==
  /\ pc = "overrides"
  /\ ovi <= Len(Overrides)
  /\ ~WriteBlocked(Overrides[ovi])
  /\ LET e == Overrides[ovi] IN
       /\ config' = IF IsConfigDir(e) THEN "file"
                    ELSE IF UnderConfig(e) THEN "dir"
                    ELSE config
       /\ ov' = IF IsConfigDir(e) THEN ov
                ELSE [ov EXCEPT ![e.path] = e.content]
  /\ ovi' = ovi + 1
  /\ UNCHANGED <<script, remote, pc, runs, modpacks_exists, cache, temp, data,
                 fs, task, futures, reported, start, deleted, raised,
                 failed_before>>

\* One pass of the loop raises (the write is blocked, or the filesystem
\* refuses it): no except clause, the exception leaves main().
apply_override_raises ==
  /\ pc = "overrides"
  /\ ovi <= Len(Overrides)
  /\ Abort("override", <<ovi>>)
  /\ UNCHANGED <<script, remote, runs, temp, data, fs, config, ov, task,
                 futures, reported, ovi, start, deleted, failed_before>>

\* The move placed before the override loop.
move_to_cache_early ==
  /\ pc = "overrides"
  /\ modpacks_exists' = TRUE
  /\ cache' = cache \cup {last_version_filename}
  /\ pc' = "done"
  /\ UNCHANGED <<script, remote, runs, temp, data, fs, config, ov, task,
                 futures, reported, ovi, start, deleted, raised,
                 failed_before>>

\* shutil.move(mrpack_path, MODPACKS_FOLDER / last_version_filename)
move_to_cache ==
  /\ pc = "overrides"
  /\ ovi > Len(Overrides)
  /\ modpacks_exists' = TRUE
  /\ cache' = cache \cup {last_version_filename}
  /\ pc' = "done"
  /\ UNCHANGED <<script, remote, runs, temp, data, fs, config, ov, task,
                 futures, reported, ovi, start, deleted, raised,
                 failed_before>>

\* ------------------------------------------------------------ the next run
Terminal == {"done", "uptodate", "no_versions", "aborted"}

\* The files of this run's download stage that were not obtained.
FailedNow == {futures[i] : i \in {j \in Tasks : task[j] \in {"error", "raised"}}}

\* The user starts the script again; the remote version is unchanged.
NewRun ==
  /\ pc \in Terminal
  /\ runs < MaxRuns
  /\ runs' = runs + 1
  /\ pc' = "start"
  /\ temp' = FALSE
  /\ data' = NoData
  /\ task' = <<>>
  /\ futures' = <<>>
  /\ reported' = {}
  /\ ovi' = 1
  /\ start' = Snapshot
  /\ deleted' = {}
  /\ raised' = NotRaised
  /\ failed_before' = FailedNow
  /\ UNCHANGED <<script, remote, modpacks_exists, cache, fs, config, ov>>

Next ==
  \/ FetchNothing
  \/ AlreadyUpdated
  \/ NewVersion
  \/ download_modpack
  \/ read_mrpack
  \/ read_mrpack_raises
  \/ files_from_pack_raises
  \/ sync_mods_folder
  \/ sync_mods_folder_raises
  \/ remove_content_of_folder_mods
  \/ remove_content_then_files_raises
  \/ remove_content_raises
  \/ \E i \in Tasks : StartTask(i)
  \/ \E i \in Tasks : download_mod_current(i)
  \/ \E i \in Tasks : download_mod_downloaded(i)
  \/ \E i \in Tasks : download_mod_error(i)
  \/ \E i \in Tasks : download_mod_raises(i)
  \/ \E i \in Tasks : print_result(i)
  \/ \E i \in Tasks : result_raises(i)
  \/ pool_exit
  \/ pool_exit_raised
  \/ apply_override
  \/ apply_override_raises
  \/ move_to_cache
  \/ NewRun

Spec == Init /\ [][Next]_vars

\* --------------------------------------------- the reconciler on its own
\* sync_mods_folder applied to every file list and every mods directory
\* within the bounds.
SyncDisks ==
  {d \in [Paths -> {Absent} \cup Sizes] :
     \A p \in Paths : p.dir # "mods" => d[p] = Absent}

SyncInit ==
  /\ script = "sync_modpack_mmc"
  /\ remote \in {a \in [index : {"ok"}, files : Manifests, overrides : {<<>>}] :
                   TRUE}
  /\ pc = "reconcile"
  /\ runs = 1
  /\ cache = {}
  /\ modpacks_exists = FALSE
  /\ temp = TRUE
  /\ data = remote
  /\ fs \in SyncDisks
  /\ config = "absent"
  /\ ov = [p \in OverridePaths |-> 0]
  /\ task = <<>>
  /\ futures = <<>>
  /\ reported = {}
  /\ ovi = 1
  /\ start = Snapshot
  /\ deleted = {}
  /\ raised = NotRaised
  /\ failed_before = {}

SyncNext ==
  \/ sync_mods_folder
  \/ sync_mods_folder_raises

SyncSpec == SyncInit /\ [][SyncNext]_vars

\* ================================================================ properties
\* What the properties say of a run, in terms of the state alone.
ManifestNames == {data.files[i].path.name : i \in 1..Len(data.files)}
ModsNamesNow == {n \in Names : fs[ModsPath(n)] # Absent}
JarAtStart(n) == start.fs[ModsPath(n)] # Absent /\ n[2] = ".jar"
\* The size the reconciler expects under a basename: that of the last entry.
LastSize(n) ==
  LET k == CHOOSE i \in 1..Len(data.files) :
             /\ data.files[i].path.name = n
             /\ \A j \in (i + 1)..Len(data.files) : data.files[j].path.name # n
  IN data.files[k].fileSize
Position(e) == CHOOSE k \in 1..Len(data.files) : data.files[k] = e
ProfileAsAtStart ==
  /\ fs = start.fs
  /\ ov = start.ov
  /\ config = start.config
  /\ deleted = {}
CacheAsAtStart ==
  /\ cache = start.cache
  /\ modpacks_exists = start.modpacks_exists
\* Every file entry under overrides/ other than the one numbered k is in
\* the profile with its content.
SiblingsWritten(k) ==
  \A j \in 1..Len(Overrides) :
    (j # k /\ Overrides[j].path # ConfigDirEntry)
      => ov[Overrides[j].path] = Overrides[j].content

\* C1: the archive is in the cache only once the run has completed every
\* stage (archive downloaded and parsed, reconciliation done, every future
\* finished and reported, every override written); an aborted run leaves
\* the cache as it was, without the new version.
C1_CacheOnlyAfterCompletion ==
  /\ ~CacheAsAtStart =>
       /\ pc = "done"
       /\ cache = start.cache \cup {last_version_filename}
       /\ temp
       /\ data.index = "ok"
       /\ raised = NotRaised
       /\ \A i \in DOMAIN task : task[i] \in {"current", "downloaded", "error"}
       /\ reported = DOMAIN task
       /\ ovi = Len(data.overrides) + 1
       /\ SiblingsWritten(0)
  /\ pc = "aborted" =>
       /\ CacheAsAtStart
       /\ \A file \in cache :
            ~(file[Len(file)] = ".mrpack" /\ Contains(last_version_filename, file))

\* C1 witness: a run that downloaded a file and applied an override reached
\* the end and cached the archive.
C1_Witness ==
  /\ pc = "done"
  /\ last_version_filename \in cache \ start.cache
  /\ \E i \in DOMAIN task : task[i] = "downloaded"
  /\ Len(data.overrides) > 0

\* C2: a file whose download failed is attempted again by the next run:
\* the next run does not end "already updated" while a file that failed in
\* the run before is still absent or of the wrong size.
C2_FailedFileRetried ==
  pc = "uptodate" =>
    \A f \in failed_before : fs[f.path] = f.fileSize

\* The run has done no more than fetch the versions and inspect the cache.
StoppedEarly ==
  /\ pc \in {"start", "uptodate", "no_versions"}
  /\ ~temp
  /\ task = <<>>
  /\ ProfileAsAtStart
  /\ CacheAsAtStart

\* C3 as stated: the cache holding at the start of the run any file whose
\* name contains the latest version's filename, main() stops after the
\* fetch and the inspection of the cache and changes nothing.
C3_StopsWhenNameCached ==
  (\E file \in start.cache : Contains(last_version_filename, file))
    => StoppedEarly

\* C3 as amended: the same, for a cached file matching *.mrpack.
C3_StopsWhenMrpackCached ==
  (\E file \in start.cache :
     file[Len(file)] = ".mrpack" /\ Contains(last_version_filename, file))
    => StoppedEarly

\* C3 witness: a run against a cache holding the version under a longer
\* name ended "already updated".
C3_Witness ==
  /\ pc = "uptodate"
  /\ OldV1 \in start.cache

\* C4 as stated: the names deleted are those on disk and not in the
\* manifest; the entries returned are those whose basename is absent from
\* disk or whose size on disk is not the entry's.
C4_DiffByNameAndSize ==
  pc = "pool" =>
    /\ deleted = {n \in Names : start.fs[ModsPath(n)] # Absent
                                  /\ n \notin ManifestNames}
    /\ Range(futures) =
         {e \in Range(data.files) :
            \/ start.fs[ModsPath(e.path.name)] = Absent
            \/ start.fs[ModsPath(e.path.name)] # e.fileSize}

\* C4 as amended: only *.jar files of the mods directory are seen.  The
\* names deleted are never other than *.jar names on disk and not in the
\* manifest; when sync_mods_folder returns, all of them are deleted, and the
\* entries returned are, in the manifest's order, those whose basename is
\* not a *.jar file on disk or whose size on disk is not the size of the
\* last entry with that basename.
C4_DiffOfJars ==
  /\ deleted \subseteq {n \in Names : JarAtStart(n) /\ n \notin ManifestNames}
  /\ \A p \in Paths :
       fs[p] = IF p.dir = "mods" /\ p.name \in deleted
               THEN Absent ELSE start.fs[p]
  /\ pc = "pool" =>
       /\ deleted = {n \in Names : JarAtStart(n) /\ n \notin ManifestNames}
       /\ Range(futures) =
            {e \in Range(data.files) :
               \/ ~JarAtStart(e.path.name)
               \/ start.fs[ModsPath(e.path.name)] # LastSize(e.path.name)}
       /\ \A i, j \in 1..Len(futures) :
            i < j => Position(futures[i]) < Position(futures[j])

\* C4 witness: the reconciler returned after deleting a surplus mod,
\* keeping a mod of the right size and returning another entry.
C4_Witness ==
  /\ pc = "pool"
  /\ deleted # {}
  /\ Len(futures) > 0
  /\ \E e \in Range(data.files) :
       /\ e \notin Range(futures)
       /\ fs[e.path] = e.fileSize

\* The download stage is over and no task failed.
DownloadsAllSucceeded ==
  /\ pc = "overrides"
  /\ \A i \in DOMAIN task : task[i] \in {"current", "downloaded"}

\* C5 as stated: after reconciliation and downloads without a failure, the
\* names in the mods directory are the basenames of the manifest.
C5_ModsEqualManifest ==
  DownloadsAllSucceeded => ModsNamesNow = ManifestNames

\* C5 as amended: after reconciliation and downloads without a failure, no
\* *.jar file outside the manifest remains in the mods directory and no
\* entry of the manifest whose path is in mods/ is missing from it.
C5_JarsWithinManifest ==
  DownloadsAllSucceeded =>
    /\ \A n \in ModsNamesNow : n[2] = ".jar" => n \in ManifestNames
    /\ \A e \in Range(data.files) : e.path.dir = "mods" => fs[e.path] # Absent

\* C5 witness: sync_modpack_mmc.py deleted a surplus mod and downloaded a
\* file, and the download stage ended without a failure.
C5_Witness ==
  /\ DownloadsAllSucceeded
  /\ script = "sync_modpack_mmc"
  /\ deleted # {}
  /\ \E i \in DOMAIN task : task[i] = "downloaded"

\* C6: when the archive has no index or its index does not parse, the run
\* aborts on it with the profile and the cache as they were at its start.
C6_MalformedArchiveLeavesProfile ==
  (pc = "aborted" /\ temp /\ raised.at \in {"read_mrpack", "files"})
    => ProfileAsAtStart /\ CacheAsAtStart

\* C7: once the download stage is over, every submitted task has finished
\* and the control thread has printed the outcome of every one.
C7_EveryOutcomeReported ==
  pc \notin {"pool", "pool_raised"} =>
    /\ \A i \in DOMAIN task : task[i] \notin {"pending", "running"}
    /\ reported = DOMAIN task

\* C8: no override is written, and the override loop is not entered, while
\* a submitted download is pending or running.
C8_OverridesAfterJoin ==
  (pc = "overrides" \/ ov # start.ov \/ config # start.config)
    => \A i \in DOMAIN task : task[i] \notin {"pending", "running"}

\* C8 witness: two downloads were submitted and an override has been
\* applied.
C8_Witness ==
  /\ pc = "overrides"
  /\ Len(futures) = 2
  /\ ovi > 1

\* The names the reconciliation of the running script sets out to delete.
DeleteSet ==
  IF script = "sync_modpack_mmc"
  THEN {n \in Names : JarAtStart(n) /\ n \notin ManifestNames}
  ELSE {n \in Names : start.fs[ModsPath(n)] # Absent}

\* C9: an unlink that fails does not abort the run, and every other file of
\* the delete set is deleted.
C9_DeleteFailureIsolated ==
  raised.at = "unlink" =>
    /\ pc # "aborted"
    /\ \A n \in DeleteSet \ {raised.on} : fs[ModsPath(n)] = Absent

\* C10: an override entry that cannot be written does not abort the run,
\* and every other file entry under overrides/ is written with its content.
C10_OverrideFailureIsolated ==
  raised.at = "override" =>
    /\ pc # "aborted"
    /\ SiblingsWritten(raised.on[1])
====
